---- MODULE Spec2Model ----
(***************************************************************************)
(* Model of the autoadvisor backend: the year-range parser, the knowledge  *)
(* base matcher, the resilient JSON extractor, and the two completion      *)
(* calls extract_listing and advise.                                       *)
(*                                                                         *)
(* Python strings that the code scans character by character are modelled  *)
(* as sequences of one-character strings.  The en-dash (U+2013) is written *)
(* "ndash".  Python values of mixed type (None, int, float, str, list) are *)
(* records [t, n, s]: t the type, n the number, s the characters.          *)
(***************************************************************************)
EXTENDS Integers, Sequences, FiniteSets, TLC

VARIABLES
    pc,        \* position of the modelled call
    r,         \* _parse_year_range: the argument
    yr,        \* _parse_year_range: the returned pair
    listing,   \* load_kb_for_listing / advise: the listing argument
    kb,        \* the rows csv.DictReader yields from KB_CSV
    chunks,    \* load_kb_for_listing: the returned list
    text,      \* _extract_json: the argument (lexemes)
    out,       \* _extract_json: the returned value or the exception
    call,      \* which completion call runs: extract_listing or advise
    ad_text,   \* extract_listing: the argument
    requests,  \* number of requests.post issued by the call
    resp,      \* the response of the completion service
    ret        \* what the call returned or raised

vars == <<pc, r, yr, listing, kb, chunks, text, out, call, ad_text, requests, resp, ret>>

(***************************************************************************)
(* Python values                                                           *)
(***************************************************************************)
PyNone == [t |-> "None", n |-> 0, s |-> <<>>]
PyInt(i) == [t |-> "int", n |-> i, s |-> <<>>]
\* a float, held in tenths: PyFloat(-15) is -1.5; PyNaN is float('nan')
PyFloat(tenths) == [t |-> "float", n |-> tenths, s |-> <<>>]
PyNaN == [t |-> "nan", n |-> 0, s |-> <<>>]
PyBool(b) == [t |-> "bool", n |-> IF b THEN 1 ELSE 0, s |-> <<>>]
PyStr(str) == [t |-> "str", n |-> 0, s |-> str]
\* a list of n items
PyList(len) == [t |-> "list", n |-> len, s |-> <<>>]

\* Python truthiness: None, 0, 0.0, False, "" and [] are false
Truthy(v) ==
    CASE v.t = "None" -> FALSE
      [] v.t = "str" -> v.s # <<>>
      [] v.t = "nan" -> TRUE
      [] OTHER -> v.n # 0

\* isinstance(v, int): bool is a subclass of int
IsInstanceInt(v) == v.t \in {"int", "bool"}

(***************************************************************************)
(* Characters                                                              *)
(***************************************************************************)
Digit == {"0", "1", "2", "3", "4", "5", "6", "7", "8", "9"}
Whitespace == {" "}

DigitVal(c) ==
    CASE c = "0" -> 0 [] c = "1" -> 1 [] c = "2" -> 2 [] c = "3" -> 3
      [] c = "4" -> 4 [] c = "5" -> 5 [] c = "6" -> 6 [] c = "7" -> 7
      [] c = "8" -> 8 [] c = "9" -> 9

\* the letters the model uses, in both cases
LowerCase == <<"a", "b", "d", "f", "g", "k", "l", "m", "o", "v", "w", "x", "y">>
UpperCase == <<"A", "B", "D", "F", "G", "K", "L", "M", "O", "V", "W", "X", "Y">>

IsLetter(c) == \E i \in 1..Len(LowerCase) : c = LowerCase[i] \/ c = UpperCase[i]

\* str.lower, one character
Lower(c) ==
    IF \E i \in 1..Len(UpperCase) : c = UpperCase[i]
    THEN LowerCase[CHOOSE i \in 1..Len(UpperCase) : c = UpperCase[i]]
    ELSE c

\* str.upper, one character
Upper(c) ==
    IF \E i \in 1..Len(LowerCase) : c = LowerCase[i]
    THEN UpperCase[CHOOSE i \in 1..Len(LowerCase) : c = LowerCase[i]]
    ELSE c

RECURSIVE lstrip(_)
lstrip(s) == IF s = <<>> \/ Head(s) \notin Whitespace THEN s ELSE lstrip(Tail(s))

RECURSIVE rstrip(_)
rstrip(s) ==
    IF s = <<>> \/ s[Len(s)] \notin Whitespace THEN s
    ELSE rstrip(SubSeq(s, 1, Len(s) - 1))

\* str.strip()
strip(s) == rstrip(lstrip(s))

\* str.lower()
lower(s) == [i \in 1..Len(s) |-> Lower(s[i])]

AllIn(s, S) == \A i \in 1..Len(s) : s[i] \in S

\* the value of a non-empty string of decimal digits
RECURSIVE DigitsValue(_)
DigitsValue(s) ==
    IF s = <<>> THEN 0
    ELSE 10 * DigitsValue(SubSeq(s, 1, Len(s) - 1)) + DigitVal(s[Len(s)])

(***************************************************************************)
(* advisor.py: _parse_year_range                                           *)
(***************************************************************************)
\* int(str): optional surrounding whitespace, an optional sign, then digits.
\* [ok |-> FALSE] stands for ValueError.
int_str(s) ==
    LET b == strip(s)
        signed == b # <<>> /\ Head(b) \in {"+", "-"}
        d == IF signed THEN Tail(b) ELSE b
    IN  IF d # <<>> /\ AllIn(d, Digit)
        THEN [ok |-> TRUE,
              v |-> IF signed /\ Head(b) = "-" THEN 0 - DigitsValue(d) ELSE DigitsValue(d)]
        ELSE [ok |-> FALSE, v |-> 0]

\* re.match(r"^\s*(\d{4})\s*[-ndash]\s*(\d{4})\s*$", r): the two groups, or no match
YearRangeRegex(s) ==
    LET a == lstrip(s)
        g1 == SubSeq(a, 1, 4)
        b == lstrip(SubSeq(a, 5, Len(a)))
        c == lstrip(Tail(b))
        g2 == SubSeq(c, 1, 4)
        e == lstrip(SubSeq(c, 5, Len(c)))
    IN  IF /\ Len(a) >= 4 /\ AllIn(g1, Digit)
           /\ b # <<>> /\ Head(b) \in {"-", "ndash"}
           /\ Len(c) >= 4 /\ AllIn(g2, Digit)
           /\ e = <<>>
        THEN [matched |-> TRUE, g1 |-> g1, g2 |-> g2]
        ELSE [matched |-> FALSE, g1 |-> <<>>, g2 |-> <<>>]

parse_year_range(s) ==
    LET m == YearRangeRegex(s)
        y == int_str(s)
    IN  IF s = <<>> THEN <<PyNone, PyNone>>
        ELSE IF m.matched THEN <<PyInt(DigitsValue(m.g1)), PyInt(DigitsValue(m.g2))>>
        ELSE IF y.ok THEN <<PyInt(y.v), PyInt(y.v)>>
        ELSE <<PyNone, PyNone>>

(***************************************************************************)
(* advisor.py: load_kb_for_listing                                         *)
(***************************************************************************)
\* chunks[:8]
KbCap == 8

Min(a, b) == IF a <= b THEN a ELSE b

\* _normalize: (s or "").strip().lower()
normalize(v) == lower(strip(IF Truthy(v) THEN v.s ELSE <<>>))

\* a in b, for strings
IsSubstring(a, b) == \E i \in 0..(Len(b) - Len(a)) : SubSeq(b, i + 1, i + Len(a)) = a

\* the three `continue` tests of the filtered pass, for one row
Skipped(l, row) ==
    LET brand == normalize(l.brand)
        model == normalize(l.model)
        year == l.year
        rb == normalize(PyStr(row.brand))
        rm == normalize(PyStr(row.model))
        y == parse_year_range(row.year_range)
    IN  \/ brand # <<>> /\ rb # <<>> /\ brand # rb
        \/ model # <<>> /\ rm # <<>> /\ ~IsSubstring(model, rm)
        \/ /\ IsInstanceInt(year) /\ Truthy(y[1]) /\ Truthy(y[2])
           /\ ~(y[1].n <= year.n /\ year.n <= y[2].n)

\* the f-string "[{brand}/{model}/{year_range} * {topic}] {txt}": its five parts
format_chunk(row) ==
    [brand |-> row.brand, model |-> row.model, year_range |-> row.year_range,
     topic |-> strip(row.topic), txt |-> strip(row.text)]

\* one pass over the rows; the filtered pass skips, the fallback pass does not
RECURSIVE scan(_, _, _)
scan(l, rows, filtered) ==
    IF rows = <<>> THEN <<>>
    ELSE LET row == Head(rows)
             rest == scan(l, Tail(rows), filtered)
         IN  IF filtered /\ Skipped(l, row) THEN rest
             ELSE IF strip(row.text) = <<>> THEN rest
             ELSE <<format_chunk(row)>> \o rest

\* fallback_scan with a defect: the second pass filters again
fallback_scan_filtered(l, rows) == scan(l, rows, TRUE)

\* the second pass, taken when the first left chunks empty
fallback_scan(l, rows) == scan(l, rows, FALSE)

\* cap with a defect: keeps the last 8 chunks
cap_last(c) == SubSeq(c, Len(c) - Min(Len(c), KbCap) + 1, Len(c))

\* chunks[:8]
cap(c) == SubSeq(c, 1, Min(Len(c), KbCap))

load_kb_for_listing(l, rows) ==
    LET first == scan(l, rows, TRUE)
    IN  cap(IF first = <<>> THEN fallback_scan(l, rows) ELSE first)

(***************************************************************************)
(* Inputs                                                                  *)
(***************************************************************************)
\* longest year_range string enumerated over the whole alphabet
MaxStrLen == 3
\* most rows in an enumerated knowledge base (more than KbCap)
MaxRows == 10

YearAlphabet == {"0", "2", " ", "-", "ndash", "+", "a"}
DigitGroups ==
    {<<"0", "0", "0", "0">>, <<"2", "0", "1", "3">>, <<"2", "0", "1", "9">>,
     <<"2", "0", "1">>, <<"2", "0", "1", "3", "0">>}
Pad == {<<>>, <<" ">>}

\* every string up to MaxStrLen, and the strings shaped like a range or a year
YearStrings ==
    UNION {[1..n -> YearAlphabet] : n \in 0..MaxStrLen}
    \cup {p1 \o a \o p2 \o sep \o p3 \o b \o p4 :
            p1 \in Pad, p2 \in Pad, p3 \in Pad, p4 \in Pad,
            a \in DigitGroups, b \in DigitGroups,
            sep \in {<<"-">>, <<"ndash">>, <<"+">>, <<"a">>, <<"-", "-">>}}
    \cup {p1 \o sg \o a \o p2 :
            p1 \in Pad, p2 \in Pad, a \in DigitGroups,
            sg \in {<<>>, <<"+">>, <<"-">>, <<"ndash">>}}

NoListing == [brand |-> PyNone, model |-> PyNone, year |-> PyNone]

Listings ==
    [brand : {PyNone, PyStr(<<"V", "W">>), PyStr(<<" ", "b", "m", "w">>)},
     model : {PyNone, PyStr(<<"g", "o", "l", "f">>), PyStr(<<"G", "o", "l", "f", " ", "7">>)},
     year : {PyNone, PyInt(2016), PyInt(2021), PyStr(<<"2", "0", "1", "6">>)}]

\* rows that vary in every column the filter reads
RichRows ==
    [brand : {<<>>, <<"v", "w">>, <<"B", "M", "W", " ">>},
     model : {<<>>, <<"g", "o", "l", "f">>, <<"G", "o", "l", "f", " ", "7">>},
     year_range : {<<>>, <<"2", "0", "1", "3", "-", "2", "0", "1", "9">>,
                   <<"2", "0", "1", "9", "-", "2", "0", "1", "3">>,
                   <<"0", "0", "0", "0", "-", "2", "0", "1", "9">>,
                   <<"2", "0", "1", "6">>, <<"2", "0", "1">>, <<"a">>},
     topic : {<<"t">>},
     text : {<<"x">>, <<" ">>}]

\* rows for the long tables: two kinds with a body, one with a blank body
BodyRows ==
    {[brand |-> <<"v", "w">>, model |-> <<"g", "o", "l", "f", " ", "7">>,
      year_range |-> <<>>, topic |-> <<"t">>, text |-> <<"x">>],
     [brand |-> <<"v", "w">>, model |-> <<"g", "o", "l", "f", " ", "7">>,
      year_range |-> <<>>, topic |-> <<"u">>, text |-> <<" ", "y">>]}

BlankRow ==
    [brand |-> <<"v", "w">>, model |-> <<"g", "o", "l", "f", " ", "7">>,
     year_range |-> <<>>, topic |-> <<"t">>, text |-> <<" ">>]

Blank(row) == strip(row.text) = <<>>

\* t is a table of up to MaxRows rows, at most one of them with a blank body
IsLongTable(t) ==
    \E n \in 0..MaxRows : \E b \in [1..n -> BodyRows] :
        \/ t = b
        \/ \E k \in 1..n : t = [i \in 1..n |-> IF i = k THEN BlankRow ELSE b[i]]

PlainListings ==
    {[brand |-> PyStr(<<"V", "W">>), model |-> PyStr(<<"g", "o", "l", "f">>), year |-> PyInt(2016)],
     [brand |-> PyStr(<<" ", "b", "m", "w">>), model |-> PyNone, year |-> PyNone]}

(***************************************************************************)
(* _parse_year_range applied to each input                                 *)
(***************************************************************************)
IdleYear == r = <<>> /\ yr = <<PyNone, PyNone>>
IdleKB == listing = NoListing /\ kb = <<>> /\ chunks = <<>>
IdleJson == text = <<>> /\ out = PyNone
IdleCall == call = "none" /\ ad_text = <<>> /\ requests = 0 /\ resp = PyNone /\ ret = PyNone

yearVars == <<r, yr>>
kbVars == <<listing, kb, chunks>>
jsonVars == <<text, out>>
callVars == <<call, ad_text, requests, resp, ret>>

InitYear ==
    /\ pc = "parse_year_range"
    /\ r \in YearStrings
    /\ yr = <<PyNone, PyNone>>
    /\ IdleKB /\ IdleJson /\ IdleCall

ParseYearRange ==
    /\ pc = "parse_year_range"
    /\ yr' = parse_year_range(r)
    /\ pc' = "year_done"
    /\ UNCHANGED <<r, kbVars, jsonVars, callVars>>

NextYear == ParseYearRange

SpecYear == InitYear /\ [][NextYear]_vars

(***************************************************************************)
(* load_kb_for_listing applied to each listing and table                   *)
(***************************************************************************)
InitKB ==
    /\ pc = "load_kb"
    /\ \/ listing \in Listings /\ kb \in {<<>>} \cup {<<row>> : row \in RichRows}
       \/ listing \in PlainListings /\ IsLongTable(kb)
    /\ chunks = <<>>
    /\ IdleYear /\ IdleJson /\ IdleCall

\* lines 46-64: the filtered pass
FilteredPass ==
    /\ pc = "load_kb"
    /\ chunks' = scan(listing, kb, TRUE)
    /\ pc' = "scanned"
    /\ UNCHANGED <<listing, kb, yearVars, jsonVars, callVars>>

\* lines 66-74: the fallback pass when chunks is empty, and the cap
FallbackAndReturn ==
    /\ pc = "scanned"
    /\ chunks' = cap(IF chunks = <<>> THEN fallback_scan(listing, kb) ELSE chunks)
    /\ pc' = "kb_done"
    /\ UNCHANGED <<listing, kb, yearVars, jsonVars, callVars>>

NextKB == FilteredPass \/ FallbackAndReturn

SpecKB == InitKB /\ [][NextKB]_vars

(***************************************************************************)
(* Properties of _parse_year_range and load_kb_for_listing                 *)
(***************************************************************************)
Range(f) == {f[i] : i \in DOMAIN f}

\* YYYY-YYYY with a hyphen or an en-dash, optional whitespace around each part
ExactRangeShape(s) ==
    LET b == strip(s)
        mid == SubSeq(b, 5, Len(b) - 4)
    IN  /\ Len(b) >= 9
        /\ AllIn(SubSeq(b, 1, 4), Digit)
        /\ AllIn(SubSeq(b, Len(b) - 3, Len(b)), Digit)
        /\ \E i \in 1..Len(mid) :
              /\ mid[i] \in {"-", "ndash"}
              /\ \A j \in (1..Len(mid)) \ {i} : mid[j] \in Whitespace

\* a single integer of four or more digits
SingleYearShape(s) == Len(strip(s)) >= 4 /\ AllIn(strip(s), Digit)

\* C4: _parse_year_range returns (low, high) for YYYY-YYYY, (y, y) for a single
\* integer of four or more digits, and (None, None) for every other input
C4_ParseYearRangeShapes ==
    pc = "year_done" =>
        LET b == strip(r)
        IN  IF ExactRangeShape(r)
            THEN yr = <<PyInt(DigitsValue(SubSeq(b, 1, 4))),
                        PyInt(DigitsValue(SubSeq(b, Len(b) - 3, Len(b))))>>
            ELSE IF SingleYearShape(r)
            THEN yr = <<PyInt(DigitsValue(b)), PyInt(DigitsValue(b))>>
            ELSE yr = <<PyNone, PyNone>>

\* the exclusion rule as the specification words it
DocExcluded(l, row) ==
    LET brand == normalize(l.brand)
        model == normalize(l.model)
        rb == normalize(PyStr(row.brand))
        rm == normalize(PyStr(row.model))
        y == parse_year_range(row.year_range)
    IN  \/ brand # <<>> /\ rb # <<>> /\ brand # rb
        \/ model # <<>> /\ rm # <<>> /\ ~IsSubstring(model, rm)
        \/ /\ IsInstanceInt(l.year) /\ y[1].t = "int" /\ y[2].t = "int"
           /\ (l.year.n < y[1].n \/ l.year.n > y[2].n)

\* C1: after the filtered pass a row (with a body) is left out exactly when its
\* brand differs, its model does not contain the listing's, or the listing year
\* is outside the parsed bounds
C1_ExcludedIffRule ==
    pc = "scanned" =>
        \A i \in 1..Len(kb) :
            ~Blank(kb[i]) =>
                (format_chunk(kb[i]) \notin Range(chunks) <=> DocExcluded(listing, kb[i]))

NoRowMatches == \A i \in 1..Len(kb) : Skipped(listing, kb[i])

FromTable == \A j \in 1..Len(chunks) : \E i \in 1..Len(kb) : chunks[j] = format_chunk(kb[i])

\* C2 as stated: for a non-empty table of which no row matches, the result is a
\* non-empty list of up to 8 unfiltered rows
C2_FallbackNeverEmpty ==
    (pc = "kb_done" /\ kb # <<>> /\ NoRowMatches) =>
        (chunks # <<>> /\ Len(chunks) <= KbCap /\ FromTable)

\* C2 amended: the same, for a table that holds at least one row with a body
C2_FallbackNonEmptyWhenBody ==
    (pc = "kb_done" /\ NoRowMatches /\ \E i \in 1..Len(kb) : ~Blank(kb[i])) =>
        (chunks # <<>> /\ Len(chunks) <= KbCap /\ FromTable)

C2_Witness ==
    /\ pc = "kb_done" /\ NoRowMatches /\ Len(kb) >= 2
    /\ \E i \in 1..Len(kb) : ~Blank(kb[i])
    /\ \E i \in 1..Len(kb) : Blank(kb[i])
    /\ chunks # <<>>

Survives(row) == ~Skipped(listing, row)
SurvivesWithBody(row) == ~Skipped(listing, row) /\ ~Blank(row)
HasBody(row) == ~Blank(row)

\* eligible rows as the specification words them: the rows surviving the
\* filter, or all rows when none survives
DocEligible ==
    LET surviving == SelectSeq(kb, Survives)
    IN  IF surviving # <<>> THEN surviving ELSE kb

\* eligible rows counting only rows with a body
BodyEligible ==
    LET surviving == SelectSeq(kb, SurvivesWithBody)
    IN  IF surviving # <<>> THEN surviving ELSE SelectSeq(kb, HasBody)

FirstChunks(rows) == [i \in 1..KbCap |-> format_chunk(rows[i])]

\* C3 as stated: at most 8 chunks, and with more than 8 eligible rows exactly
\* the first 8 of them in table order
C3_CapFirstEight ==
    pc = "kb_done" =>
        LET eligible == DocEligible
        IN  /\ Len(chunks) <= KbCap
            /\ Len(eligible) > KbCap => chunks = FirstChunks(eligible)

\* C3 amended: eligible rows are the rows with a non-blank body
C3_CapFirstEightWithBody ==
    pc = "kb_done" =>
        LET eligible == BodyEligible
        IN  /\ Len(chunks) <= KbCap
            /\ Len(eligible) > KbCap => chunks = FirstChunks(eligible)

C3_Witness ==
    /\ pc = "kb_done"
    /\ Len(BodyEligible) > KbCap
    /\ Len(chunks) = KbCap
    /\ \E i \in 1..KbCap : Blank(kb[i])
    /\ \E i, j \in 1..KbCap : chunks[i] # chunks[j]

(***************************************************************************)
(* extract_listing.py / advisor.py: _extract_json                          *)
(*                                                                         *)
(* The text is a sequence of lexemes: "fence" is ```, "json" the word json *)
(* (the fence tag, or prose), " " whitespace, "{" and "}", "m" the members *)
(* of an object ("a": 1, ...), and "[1]" a JSON value that is no object.   *)
(***************************************************************************)
JsonLexemes == {"fence", "json", " ", "{", "}", "m", "[1]"}

\* longest completion text enumerated
MaxTextLen == 5

ValueError == [kind |-> "ValueError", v |-> <<>>]

RECURSIVE without_ws(_)
without_ws(s) ==
    IF s = <<>> THEN <<>>
    ELSE IF Head(s) \in Whitespace THEN without_ws(Tail(s))
    ELSE <<Head(s)>> \o without_ws(Tail(s))

\* json.loads: the list [1], {} or {members}, whitespace allowed around each
\* lexeme; anything else raises JSONDecodeError, a ValueError
json_loads(s) ==
    LET b == without_ws(s)
    IN  IF b = <<"[1]">> THEN [kind |-> "list", v |-> b]
        ELSE IF b = <<"{", "}">> \/ b = <<"{", "m", "}">> THEN [kind |-> "dict", v |-> b]
        ELSE ValueError

\* the largest index of lexeme c in s, 0 when there is none
LastIndex(s, c) ==
    IF \E i \in 1..Len(s) : s[i] = c
    THEN CHOOSE i \in 1..Len(s) : s[i] = c /\ \A j \in (i + 1)..Len(s) : s[j] # c
    ELSE 0

\* the smallest index of lexeme c in s, 0 when there is none
FirstIndex(s, c) ==
    IF \E i \in 1..Len(s) : s[i] = c
    THEN CHOOSE i \in 1..Len(s) : s[i] = c /\ \A j \in 1..(i - 1) : s[j] # c
    ELSE 0

\* re.match(r"```(?:json)?\s*(.*)```", text, flags=re.S): group(1).strip(),
\* or the text itself when the pattern does not match
unfence(s) ==
    LET tagged == Len(s) >= 2 /\ s[2] = "json"
        rest == lstrip(SubSeq(s, IF tagged THEN 3 ELSE 2, Len(s)))
        close == LastIndex(rest, "fence")
    IN  IF s # <<>> /\ s[1] = "fence" /\ close > 0
        THEN strip(SubSeq(rest, 1, close - 1))
        ELSE s

\* re.search(r"\{.*\}", text, flags=re.S): group(0), or <<>> for no match
brace_span(s) ==
    LET i == FirstIndex(s, "{")
        j == LastIndex(s, "}")
    IN  IF i > 0 /\ j > i THEN SubSeq(s, i, j) ELSE <<>>

extract_json(raw) ==
    LET s == unfence(strip(raw))
        direct == json_loads(s)
    IN  IF direct.kind # "ValueError" THEN direct
        ELSE IF brace_span(s) # <<>> THEN json_loads(brace_span(s))
        ELSE ValueError

Texts == UNION {[1..n -> JsonLexemes] : n \in 0..MaxTextLen}

InitJson ==
    /\ pc = "extract_json"
    /\ text \in Texts
    /\ out = PyNone
    /\ IdleYear /\ IdleKB /\ IdleCall

ExtractJson ==
    /\ pc = "extract_json"
    /\ out' = extract_json(text)
    /\ pc' = "json_done"
    /\ UNCHANGED <<text, yearVars, kbVars, callVars>>

NextJson == ExtractJson

SpecJson == InitJson /\ [][NextJson]_vars

\* the text between an opening fence (with its optional tag) and the last fence
DocUnwrapped(s) ==
    IF /\ s # <<>> /\ s[1] = "fence"
       /\ \E k \in 2..Len(s) : s[k] = "fence"
    THEN LET k == CHOOSE k \in 2..Len(s) : s[k] = "fence" /\ \A j \in (k + 1)..Len(s) : s[j] # "fence"
             from == IF s[2] = "json" THEN 3 ELSE 2
         IN  strip(SubSeq(s, from, k - 1))
    ELSE s

\* the span from the first "{" to the last "}"
DocSpan(s) ==
    IF \E i, j \in 1..Len(s) : i < j /\ s[i] = "{" /\ s[j] = "}"
    THEN LET i == CHOOSE i \in 1..Len(s) : s[i] = "{" /\ \A k \in 1..(i - 1) : s[k] # "{"
             j == CHOOSE j \in 1..Len(s) : s[j] = "}" /\ \A k \in (j + 1)..Len(s) : s[k] # "}"
         IN  SubSeq(s, i, j)
    ELSE <<>>

\* C9: _extract_json returns a mapping or raises ParseError (ValueError); it
\* returns the first success of the strict parse of the unwrapped text and the
\* strict parse of the first-{ to last-} span, and raises exactly when both fail
C9_MappingOrParseError ==
    pc = "json_done" =>
        LET s == DocUnwrapped(strip(text))
            first == json_loads(s)
            second == IF DocSpan(s) = <<>> THEN ValueError ELSE json_loads(DocSpan(s))
        IN  /\ out.kind \in {"dict", "ValueError"}
            /\ out = IF first # ValueError THEN first ELSE second
            /\ out = ValueError <=> (first = ValueError /\ second = ValueError)

(***************************************************************************)
(* extract_listing.py: _coerce_number and extract_listing                  *)
(***************************************************************************)
\* dict.get(k): None when the key is missing
get(d, k) == IF k \in DOMAIN d THEN d[k] ELSE PyNone

\* int(x) of a float held in tenths: truncation toward zero
TruncTenths(n) == IF n >= 0 THEN n \div 10 ELSE 0 - ((0 - n) \div 10)

RECURSIVE remove_chars(_, _)
remove_chars(s, S) ==
    IF s = <<>> THEN <<>>
    ELSE IF Head(s) \in S THEN remove_chars(Tail(s), S)
    ELSE <<Head(s)>> \o remove_chars(Tail(s), S)

RECURSIVE keep_chars(_, _)
keep_chars(s, S) ==
    IF s = <<>> THEN <<>>
    ELSE IF Head(s) \in S THEN <<Head(s)>> \o keep_chars(Tail(s), S)
    ELSE keep_chars(Tail(s), S)

\* _coerce_number; raised stands for the ValueError of int(float('nan')).
\* "euro" is the euro sign.
coerce_number(x) ==
    CASE x.t = "None" -> [raised |-> FALSE, v |-> PyNone]
      [] x.t \in {"int", "bool"} -> [raised |-> FALSE, v |-> PyInt(x.n)]
      [] x.t = "float" -> [raised |-> FALSE, v |-> PyInt(TruncTenths(x.n))]
      [] x.t = "nan" -> [raised |-> TRUE, v |-> PyNone]
      [] x.t = "str" ->
            LET s1 == remove_chars(x.s, {"euro", " ", ",", "k", "m", "K", "M"})
                s2 == keep_chars(s1, Digit)
            IN  [raised |-> FALSE,
                 v |-> IF s2 # <<>> THEN PyInt(DigitsValue(s2)) ELSE PyNone]

\* str.title(): a letter is upper-cased after a non-letter, lower-cased otherwise
title(s) ==
    [i \in 1..Len(s) |->
        IF i = 1 \/ ~IsLetter(s[i - 1]) THEN Upper(s[i]) ELSE Lower(s[i])]

\* x or y
py_or(x, y) == IF Truthy(x) THEN x ELSE y

NumericFields == {"year", "mileage_km", "price_eur"}

Raise(exc, stage) == [kind |-> "raise", exc |-> exc, stage |-> stage, rec |-> <<>>]
Return(rec) == [kind |-> "return", exc |-> "", stage |-> "", rec |-> rec]

\* lines 86-102: the record built from the parsed object
listing_record(data, ad) ==
    [brand |-> IF Truthy(get(data, "brand"))
               THEN PyStr(strip(title(get(data, "brand").s))) ELSE PyNone,
     model |-> IF Truthy(get(data, "model"))
               THEN PyStr(strip(get(data, "model").s)) ELSE PyNone,
     year |-> coerce_number(get(data, "year")).v,
     mileage_km |-> coerce_number(get(data, "mileage_km")).v,
     price_eur |-> coerce_number(get(data, "price_eur")).v,
     fuel |-> get(data, "fuel"),
     transmission |-> get(data, "transmission"),
     trim |-> get(data, "trim"),
     options |-> py_or(get(data, "options"), PyList(0)),
     service_history |-> get(data, "service_history"),
     known_issues |-> py_or(get(data, "known_issues"), PyList(0)),
     seller_notes |-> get(data, "seller_notes"),
     text |-> py_or(get(data, "text"), PyStr(ad)),
     created_at |-> PyStr(<<"utcnow">>)]

\* the object a completion text denotes: its members when the text has any
parsed_object(rsp) ==
    IF \E i \in 1..Len(rsp.content) : rsp.content[i] = "m" THEN rsp.payload ELSE <<>>

\* lines 75-102 of extract_listing, from the response on
extract_listing_result(rsp, ad) ==
    IF rsp.kind = "timeout" THEN Raise("RequestException", "post")
    ELSE IF rsp.status # 200 THEN Raise("RuntimeError", "status")
    ELSE IF ~rsp.envelope THEN Raise("RuntimeError", "envelope")
    ELSE LET data == extract_json(rsp.content)
         IN  IF data.kind = "ValueError" THEN Raise("ValueError", "parse")
             ELSE IF data.kind # "dict" THEN Raise("AttributeError", "coerce")
             ELSE IF \E f \in NumericFields : coerce_number(get(parsed_object(rsp), f)).raised
                  THEN Raise("ValueError", "coerce")
             ELSE Return(listing_record(parsed_object(rsp), ad))

(***************************************************************************)
(* advisor.py: advise                                                      *)
(***************************************************************************)
AdviseFields ==
    {"pros", "cons", "questions_to_ask", "citations",
     "price_assessment", "mechanical_risk", "info_completeness", "summary"}

\* dict.setdefault with a defect: the default replaces a present value
setdefault_overwrite(d, k, v) == (k :> v) @@ d

\* dict.setdefault(k, v)
setdefault(d, k, v) == IF k \in DOMAIN d THEN d ELSE d @@ (k :> v)

\* lines 135-142 with a defect: mechanical_risk defaults to "Unknown"
apply_defaults_wrong_risk(d) ==
    LET d1 == setdefault(d, "pros", PyList(0))
        d2 == setdefault(d1, "cons", PyList(0))
        d3 == setdefault(d2, "questions_to_ask", PyList(0))
        d4 == setdefault(d3, "citations", PyList(0))
        d5 == setdefault(d4, "price_assessment", PyStr(<<"Unknown">>))
        d6 == setdefault(d5, "mechanical_risk", PyStr(<<"Unknown">>))
        d7 == setdefault(d6, "info_completeness", PyStr(<<"Medium">>))
    IN  setdefault(d7, "summary", PyStr(<<>>))

\* lines 135-142: the eight setdefault calls
apply_defaults(d) ==
    LET d1 == setdefault(d, "pros", PyList(0))
        d2 == setdefault(d1, "cons", PyList(0))
        d3 == setdefault(d2, "questions_to_ask", PyList(0))
        d4 == setdefault(d3, "citations", PyList(0))
        d5 == setdefault(d4, "price_assessment", PyStr(<<"Unknown">>))
        d6 == setdefault(d5, "mechanical_risk", PyStr(<<"Medium">>))
        d7 == setdefault(d6, "info_completeness", PyStr(<<"Medium">>))
    IN  setdefault(d7, "summary", PyStr(<<>>))

\* lines 128-144 of advise, from the response on
advise_result(rsp) ==
    IF rsp.kind = "timeout" THEN Raise("RequestException", "post")
    ELSE IF rsp.status # 200 THEN Raise("RuntimeError", "status")
    ELSE IF ~rsp.envelope THEN Raise("KeyError", "envelope")
    ELSE LET data == extract_json(rsp.content)
         IN  IF data.kind = "ValueError" THEN Raise("ValueError", "parse")
             ELSE IF data.kind # "dict" THEN Raise("AttributeError", "default")
             ELSE Return(apply_defaults(parsed_object(rsp)))

(***************************************************************************)
(* The two calls: one request each, answered by the completion service     *)
(***************************************************************************)
Absent == [t |-> "absent", n |-> 0, s |-> <<>>]

\* the object whose members are the fields of f that are not Absent
Members(f) == [k \in {k \in DOMAIN f : f[k] # Absent} |-> f[k]]

NumberValues ==
    {Absent, PyNone, PyInt(2016), PyInt(0), PyInt(0 - 5), PyFloat(115009), PyFloat(0 - 15),
     PyNaN, PyBool(TRUE),
     PyStr(<<"9", "8", " ", "0", "0", "0", " ", "k", "m">>),
     PyStr(<<"1", "1", ".", "5", "0", "0", "euro">>),
     PyStr(<<"a", "b">>), PyStr(<<>>), PyStr(<<"-", "5">>)}

AdTexts == {<<>>, <<"V", "W", " ", "a", "d">>}

ExtractPayloads ==
    {Members(f) : f \in
        [brand : {Absent, PyStr(<<"v", "w", " ", "g", "O", "L", "F", " ">>)},
         model : {Absent, PyStr(<<" ", "G", "o", "l", "f">>)},
         year : NumberValues,
         mileage_km : {Absent, PyInt(98000), PyStr(<<"9", "8", " ", "0", "0", "0", " ", "k", "m">>), PyFloat(0 - 15)},
         price_eur : {Absent, PyInt(0 - 1), PyStr(<<"1", "1", ".", "5", "0", "0", "euro">>)},
         options : {Absent, PyList(2)},
         text : {Absent, PyNone, PyStr(<<>>), PyStr(<<"a", "d">>), PyInt(5)}]}

AdvisePayloads ==
    {Members(f) : f \in
        [pros : {Absent, PyList(0), PyList(2), PyStr(<<"good">>)},
         cons : {Absent, PyList(1)},
         questions_to_ask : {Absent, PyList(5)},
         citations : {Absent, PyList(1), PyNone},
         price_assessment : {Absent, PyStr(<<"Under">>), PyStr(<<"Cheap">>), PyNone},
         mechanical_risk : {Absent, PyStr(<<"Low">>), PyStr(<<"Extreme">>)},
         info_completeness : {Absent, PyStr(<<"High">>), PyStr(<<"low">>)},
         summary : {Absent, PyStr(<<"ok">>), PyInt(7)}]}

\* completion texts: a bare object, an empty object, a fenced object, an object
\* inside prose, a list, prose alone, an unclosed object
CallTexts ==
    {<<"{", "m", "}">>, <<"{", "}">>,
     <<"fence", "json", " ", "{", "m", "}", " ", "fence">>,
     <<"json", " ", "{", "m", "}", " ", "json">>,
     <<"[1]">>, <<"json">>, <<"{", "m">>}

HasMembers(t) == \E i \in 1..Len(t) : t[i] = "m"

Responses(payloads) ==
    {[kind |-> "timeout", status |-> 0, envelope |-> FALSE, content |-> <<>>, payload |-> <<>>]}
    \cup {[kind |-> "http", status |-> st, envelope |-> FALSE, content |-> <<>>, payload |-> <<>>] :
            st \in {200, 500}}
    \cup {[kind |-> "http", status |-> 200, envelope |-> TRUE, content |-> t, payload |-> <<>>] :
            t \in {t \in CallTexts : ~HasMembers(t)}}
    \cup {[kind |-> "http", status |-> 200, envelope |-> TRUE, content |-> t, payload |-> p] :
            t \in {t \in CallTexts : HasMembers(t)}, p \in payloads}

CallListings ==
    {[brand |-> PyStr(<<"V", "w">>), model |-> PyStr(<<"g", "o", "l", "f">>), year |-> PyInt(2016)],
     [brand |-> PyNone, model |-> PyNone, year |-> PyNone]}

CallTables == {<<>>, <<BlankRow>> \o [i \in 1..KbCap |-> CHOOSE row \in BodyRows : row.topic = <<"t">>]}

Init ==
    /\ pc = "idle"
    /\ call = "none" /\ ad_text = <<>> /\ requests = 0 /\ resp = PyNone /\ ret = PyNone
    /\ IdleYear /\ IdleKB /\ IdleJson

\* extract_listing lines 64-74: the request is posted
ExtractCall ==
    /\ pc = "idle"
    /\ \E ad \in AdTexts : ad_text' = ad
    /\ call' = "extract_listing"
    /\ requests' = requests + 1
    /\ pc' = "awaiting"
    /\ UNCHANGED <<resp, ret, yearVars, kbVars, jsonVars>>

\* advise lines 115-128: the knowledge base is read, the request is posted
AdviseCall ==
    /\ pc = "idle"
    /\ \E l \in CallListings, t \in CallTables :
          /\ listing' = l
          /\ kb' = t
          /\ chunks' = load_kb_for_listing(l, t)
    /\ call' = "advise"
    /\ requests' = requests + 1
    /\ pc' = "awaiting"
    /\ UNCHANGED <<ad_text, resp, ret, yearVars, jsonVars>>

\* the completion service answers, or the request times out
Respond ==
    /\ pc = "awaiting"
    /\ resp' \in Responses(IF call = "advise" THEN AdvisePayloads ELSE ExtractPayloads)
    /\ pc' = "responded"
    /\ UNCHANGED <<call, ad_text, requests, ret, yearVars, kbVars, jsonVars>>

\* extract_listing lines 75-102
ExtractReturn ==
    /\ pc = "responded" /\ call = "extract_listing"
    /\ ret' = extract_listing_result(resp, ad_text)
    /\ pc' = "returned"
    /\ UNCHANGED <<call, ad_text, requests, resp, yearVars, kbVars, jsonVars>>

\* advise lines 129-144
AdviseReturn ==
    /\ pc = "responded" /\ call = "advise"
    /\ ret' = advise_result(resp)
    /\ pc' = "returned"
    /\ UNCHANGED <<call, ad_text, requests, resp, yearVars, kbVars, jsonVars>>

Next == ExtractCall \/ AdviseCall \/ Respond \/ ExtractReturn \/ AdviseReturn

Spec == Init /\ [][Next]_vars

(***************************************************************************)
(* Properties of extract_listing and advise                                *)
(***************************************************************************)
Returned(c) == pc = "returned" /\ call = c /\ ret.kind = "return"

\* C5: in a returned ListingRecord year, mileage_km and price_eur are each
\* None or a non-negative integer
C5_NumericFieldsNonNegative ==
    Returned("extract_listing") =>
        \A f \in NumericFields :
            ret.rec[f] = PyNone \/ (ret.rec[f].t = "int" /\ ret.rec[f].n >= 0)

\* C6: in a returned ListingRecord text is a non-empty string, and it is the
\* ad text when the parsed object omits text or gives it as null or empty
C6_TextNonEmpty ==
    Returned("extract_listing") =>
        /\ ret.rec.text.t = "str" /\ ret.rec.text.s # <<>>
        /\ ~Truthy(get(parsed_object(resp), "text")) => ret.rec.text = PyStr(ad_text)

\* the response carries a completion text from which an object is parsed
ObjectParsed ==
    /\ resp.kind = "http" /\ resp.status = 200 /\ resp.envelope
    /\ extract_json(resp.content).kind = "dict"

\* the documented defaults of the advisory record
DocDefault(k) ==
    CASE k \in {"pros", "cons", "questions_to_ask", "citations"} -> PyList(0)
      [] k = "price_assessment" -> PyStr(<<"Unknown">>)
      [] k \in {"mechanical_risk", "info_completeness"} -> PyStr(<<"Medium">>)
      [] k = "summary" -> PyStr(<<>>)

\* C7: for every parsed object advise returns a record in which a missing field
\* has its documented default and a present field keeps the parsed value
C7_DefaultsAndPassThrough ==
    (pc = "returned" /\ call = "advise" /\ ObjectParsed) =>
        /\ ret.kind = "return"
        /\ \A k \in AdviseFields :
              /\ k \in DOMAIN ret.rec
              /\ ret.rec[k] = IF k \in DOMAIN parsed_object(resp)
                              THEN parsed_object(resp)[k] ELSE DocDefault(k)

C7_Witness ==
    /\ Returned("advise")
    /\ "pros" \notin DOMAIN parsed_object(resp)
    /\ "summary" \notin DOMAIN parsed_object(resp)
    /\ "price_assessment" \in DOMAIN parsed_object(resp)
    /\ ret.rec.price_assessment = PyStr(<<"Under">>)
    /\ ret.rec.pros = PyList(0)

\* the documented type and vocabulary of each advisory field
WellTyped(k, v) ==
    CASE k \in {"pros", "cons", "questions_to_ask", "citations"} -> v.t = "list"
      [] k = "summary" -> v.t = "str"
      [] k = "price_assessment" ->
            v \in {PyStr(<<"Under">>), PyStr(<<"At">>), PyStr(<<"Over">>), PyStr(<<"Unknown">>)}
      [] k \in {"mechanical_risk", "info_completeness"} ->
            v \in {PyStr(<<"Low">>), PyStr(<<"Medium">>), PyStr(<<"High">>)}

\* C8 as stated: every returned AdvisoryRecord has all eight fields, each of its
\* documented type and vocabulary
C8_RecordWellTyped ==
    Returned("advise") =>
        \A k \in AdviseFields : k \in DOMAIN ret.rec /\ WellTyped(k, ret.rec[k])

\* C8 amended: every returned AdvisoryRecord has all eight fields; a field the
\* parsed object lacked is well-typed, and a field it held is well-typed
\* whenever the parsed value was
C8_RecordPopulatedDefaultsTyped ==
    Returned("advise") =>
        \A k \in AdviseFields :
            /\ k \in DOMAIN ret.rec
            /\ k \notin DOMAIN parsed_object(resp) => WellTyped(k, ret.rec[k])
            /\ (k \in DOMAIN parsed_object(resp) /\ WellTyped(k, parsed_object(resp)[k]))
                  => WellTyped(k, ret.rec[k])

C8_Witness ==
    /\ Returned("advise")
    /\ "mechanical_risk" \notin DOMAIN parsed_object(resp)
    /\ ret.rec.mechanical_risk = PyStr(<<"Medium">>)
    /\ "info_completeness" \in DOMAIN parsed_object(resp)
    /\ ~WellTyped("info_completeness", ret.rec.info_completeness)

\* C10: each call issues exactly one request; a non-success status fails with
\* UpstreamError (RuntimeError) and a response from which no object can be
\* recovered fails with ParseError (ValueError), both before any coercion or
\* defaulting; no record is returned with a failure
C10_OneRequestAllOrNothing ==
    /\ pc \in {"awaiting", "responded", "returned"} => requests = 1
    /\ pc = "returned" =>
          /\ (resp.kind = "http" /\ resp.status # 200) => ret = Raise("RuntimeError", "status")
          /\ (resp.kind = "http" /\ resp.status = 200 /\ resp.envelope /\ ~ObjectParsed)
                => ret = Raise("ValueError", "parse")
          /\ ret.kind = "raise" => ret.rec = <<>>

====
